---- MODULE Spec2Model ----
(***************************************************************************)
(* A model of the DS3231 real-time-clock driver for the Raspberry Pi Pico  *)
(* (libraries/ds3231/ds3231.c).  The device is a register file of 19       *)
(* bytes behind an I2C bus whose transactions succeed or fail as a whole;  *)
(* the driver's functions are the actions.  All arithmetic is the C        *)
(* arithmetic of the source on uint8_t values.                             *)
(***************************************************************************)
EXTENDS Integers, Sequences, FiniteSets, TLC

VARIABLES
    regs,         \* the device's registers 0x00..0x12
    am_pm_mode,   \* rtc->am_pm_mode of the ds3231_t facade
    data,         \* the caller's ds3231_data_t
    alarm_time,   \* the caller's ds3231_alarm_1_t / ds3231_alarm_2_t
    temperature,  \* *temperature of ds3231_read_temperature, in quarter degrees
    op,           \* the function called last
    arg,          \* its scalar argument (enable flag, mask, frequency, offset)
    ret,          \* its return value
    bus,          \* the register transactions it issued, in order
    pre,          \* the registers, mode and caller structs when it was called
    prev,         \* the function called before it, and what that returned
    calls,        \* the number of calls so far
    tasks         \* two callers inside their calls, transaction by transaction

vars == <<regs, am_pm_mode, data, alarm_time, temperature, op, arg, ret, bus,
          pre, prev, calls, tasks>>

(***************************************************************************)
(* uint8_t arithmetic                                                      *)
(***************************************************************************)
Byte == 0..255

Bit(b, n) == (b \div (2^n)) % 2

RECURSIVE AndBits(_, _, _)
AndBits(a, b, n) ==
    IF n < 0 THEN 0
    ELSE (2^n) * (Bit(a, n) * Bit(b, n)) + AndBits(a, b, n - 1)

\* a & b on 8-bit operands
BitAnd(a, b) == AndBits(a, b, 7)

\* a | b on 8-bit operands
BitOr(a, b) == a + b - BitAnd(a, b)

\* (uint8_t)~m
BitNot(m) == 255 - m

\* (uint8_t)(a << n)
Shl(a, n) == (a * (2^n)) % 256

\* a >> n
Shr(a, n) == a \div (2^n)

(***************************************************************************)
(* The register map and the enumerations of ds3231.h                       *)
(***************************************************************************)
DS3231_SECONDS_REG == 0
DS3231_HOURS_REG == 2
DS3231_SECONDS_ALARM_1_REG == 7
DS3231_MINUTES_ALARM_2_REG == 11
DS3231_CONTROL_REG == 14
DS3231_CONTROL_STATUS_REG == 15
DS3231_AGING_OFFSET_REG == 16
DS3231_TEMPERATURE_MSB_REG == 17
DS3231_TEMPERATURE_LSB_REG == 18

RegAddr == DS3231_SECONDS_REG..DS3231_TEMPERATURE_LSB_REG

ON_EVERY_SECOND == 15
ON_MATCHING_SECOND == 14
ON_MATCHING_SECOND_AND_MINUTE == 12
ON_MATCHING_SECOND_MINUTE_AND_HOUR == 8
ON_MATCHING_SECOND_MINUTE_HOUR_AND_DATE == 0
ON_MATCHING_SECOND_MINUTE_HOUR_AND_DAY == 16

ON_EVERY_MINUTE == 7
ON_MATCHING_MINUTE == 6
ON_MATCHING_MINUTE_AND_HOUR == 5
ON_MATCHING_MINUTE_HOUR_AND_DATE == 0
ON_MATCHING_MINUTE_HOUR_AND_DAY == 1

FREQUENCY_1_HZ == 0
FREQUENCY_1024_HZ == 1
FREQUENCY_4096_HZ == 2
FREQUENCY_8192_HZ == 3

ALARM_1_MASKS ==
    { ON_EVERY_SECOND, ON_MATCHING_SECOND, ON_MATCHING_SECOND_AND_MINUTE,
      ON_MATCHING_SECOND_MINUTE_AND_HOUR,
      ON_MATCHING_SECOND_MINUTE_HOUR_AND_DATE,
      ON_MATCHING_SECOND_MINUTE_HOUR_AND_DAY }

ALARM_2_MASKS ==
    { ON_EVERY_MINUTE, ON_MATCHING_MINUTE, ON_MATCHING_MINUTE_AND_HOUR,
      ON_MATCHING_MINUTE_HOUR_AND_DATE, ON_MATCHING_MINUTE_HOUR_AND_DAY }

SQUARE_WAVE_FREQUENCY ==
    { FREQUENCY_1_HZ, FREQUENCY_1024_HZ, FREQUENCY_4096_HZ, FREQUENCY_8192_HZ }

(***************************************************************************)
(* The numeric codec                                                       *)
(***************************************************************************)
\* the tens digit lands one place too low: (twos_digit << 3) | ones_digit
bin_to_bcd_shift_3(d) ==
    LET ones_digit == d % 10
        twos_digit == ((d - ones_digit) % 256) \div 10
    IN  BitOr(Shl(twos_digit, 3), ones_digit)

bin_to_bcd(d) ==
    LET ones_digit == d % 10
        twos_digit == ((d - ones_digit) % 256) \div 10
    IN  (Shl(twos_digit, 4) + ones_digit) % 256

bin_to_bcd_am_pm(d) ==
    LET temp  == bin_to_bcd(d)
        am_pm == IF d > 12 THEN 1 ELSE 0
    IN  BitOr(temp, Shl(am_pm, 5))

(***************************************************************************)
(* The bus: a register transaction succeeds or fails as a whole.  A call   *)
(* is given the index of the transaction that fails (0: none does).        *)
(***************************************************************************)
i2c_read_reg(reg_addr, length, ok) ==
    [kind |-> "read", reg |-> reg_addr, len |-> length, ok |-> ok]

i2c_write_reg(reg_addr, length, ok) ==
    [kind |-> "write", reg |-> reg_addr, len |-> length, ok |-> ok]

\* the registers after the device stored `bytes` from `reg_addr` on
Stored(r, reg_addr, bytes) ==
    [a \in RegAddr |->
        IF a >= reg_addr /\ a < reg_addr + Len(bytes)
        THEN bytes[a - reg_addr + 1] ELSE r[a]]

\* the bytes the device returns for a read of `length` from `reg_addr`
Fetched(r, reg_addr, length) == [i \in 1..length |-> r[reg_addr + i - 1]]

\* what every call leaves behind for the observer
Returns(name, a, r, b) ==
    /\ op' = name
    /\ arg' = a
    /\ ret' = r
    /\ bus' = b
    /\ pre' = [regs |-> regs, am_pm_mode |-> am_pm_mode, data |-> data,
               alarm_time |-> alarm_time]
    /\ prev' = [op |-> op, ret |-> ret]
    /\ calls' = calls + 1
    /\ UNCHANGED tasks

(***************************************************************************)
(* ds3231_enable_am_pm_mode                                                *)
(***************************************************************************)
ds3231_enable_am_pm_mode(enable, fail) ==
    LET temp == regs[DS3231_HOURS_REG]
        new  == IF enable THEN BitOr(temp, Shl(1, 6))
                ELSE BitAnd(temp, BitNot(Shl(1, 6)))
        rd(ok) == i2c_read_reg(DS3231_HOURS_REG, 1, ok)
        wr(ok) == i2c_write_reg(DS3231_HOURS_REG, 1, ok)
    IN  /\ UNCHANGED <<data, alarm_time, temperature>>
        /\ IF fail = 1
           THEN /\ Returns("enable_am_pm_mode", enable, -1, <<rd(FALSE)>>)
                /\ UNCHANGED <<regs, am_pm_mode>>
           ELSE /\ am_pm_mode' = enable
                /\ IF fail = 2
                   THEN /\ Returns("enable_am_pm_mode", enable, -1,
                                   <<rd(TRUE), wr(FALSE)>>)
                        /\ UNCHANGED regs
                   ELSE /\ Returns("enable_am_pm_mode", enable, 0,
                                   <<rd(TRUE), wr(TRUE)>>)
                        /\ regs' = Stored(regs, DS3231_HOURS_REG, <<new>>)

(***************************************************************************)
(* The clock register mapper: ds3231_configure_time and                    *)
(* ds3231_read_current_time                                                *)
(***************************************************************************)
\* hours as ds3231_configure_time and the two set-alarm functions clamp them
ClampHours(h, mode) ==
    IF mode
    THEN (IF h > 12 THEN 12 ELSE IF h < 1 THEN 1 ELSE h)
    ELSE (IF h > 23 THEN 23 ELSE h)

\* ClampLowHigh without its else-if branch
ClampLowHighNoLow(x, hi) == IF x > hi THEN hi ELSE x

\* if(x > hi) x = hi; else if(x < 1) x = 1;
ClampLowHigh(x, hi) == IF x > hi THEN hi ELSE IF x < 1 THEN 1 ELSE x

\* if(x > hi) x = hi;
ClampHigh(x, hi) == IF x > hi THEN hi ELSE x

\* *data after the range checks of ds3231_configure_time
ClampTime(d, mode) ==
    [d EXCEPT !.seconds = ClampHigh(d.seconds, 59),
              !.minutes = ClampHigh(d.minutes, 59),
              !.hours   = ClampHours(d.hours, mode),
              !.day     = ClampLowHigh(d.day, 7),
              !.date    = ClampLowHigh(d.date, 31),
              !.month   = ClampLowHigh(d.month, 12),
              !.year    = ClampHigh(d.year, 99)]

\* HoursByte without the writes of bit 6
HoursByteNoModeBit(h, mode) ==
    IF mode THEN bin_to_bcd_am_pm(h) ELSE bin_to_bcd(h)

\* the hours byte of the clock and of both alarms
HoursByte(h, mode) ==
    IF mode
    THEN BitOr(bin_to_bcd_am_pm(h), Shl(1, 6))
    ELSE BitAnd(bin_to_bcd(h), BitNot(Shl(1, 6)))

\* temp[0..6] of ds3231_configure_time, from the clamped *data
TimeImage(d, mode) ==
    << bin_to_bcd(d.seconds),
       bin_to_bcd(d.minutes),
       HoursByte(d.hours, mode),
       bin_to_bcd(d.day),
       bin_to_bcd(d.date),
       IF d.century # 0 THEN BitOr(bin_to_bcd(d.month), Shl(1, 7))
       ELSE bin_to_bcd(d.month),
       bin_to_bcd(d.year) >>

ds3231_configure_time(fail) ==
    LET clamped == ClampTime(data, am_pm_mode)
        temp    == TimeImage(clamped, am_pm_mode)
        rd(ok)  == i2c_read_reg(DS3231_SECONDS_REG, 7, ok)
        wr(ok)  == i2c_write_reg(DS3231_SECONDS_REG, 7, ok)
    IN  /\ UNCHANGED <<am_pm_mode, alarm_time, temperature>>
        /\ IF fail = 1
           THEN /\ Returns("configure_time", 0, -1, <<rd(FALSE)>>)
                /\ UNCHANGED <<regs, data>>
           ELSE /\ data' = clamped
                /\ IF fail = 2
                   THEN /\ Returns("configure_time", 0, -1,
                                   <<rd(TRUE), wr(FALSE)>>)
                        /\ UNCHANGED regs
                   ELSE /\ Returns("configure_time", 0, 0,
                                   <<rd(TRUE), wr(TRUE)>>)
                        /\ regs' = Stored(regs, DS3231_SECONDS_REG, temp)

\* 10 * ((raw & tens_mask) >> 4) + (raw & 0x0F)
Decode(raw, tens_mask) ==
    (10 * Shr(BitAnd(raw, tens_mask), 4) + BitAnd(raw, 15)) % 256

\* *data after ds3231_read_current_time decoded raw_data into it
TimeRecord(d, raw_data, mode) ==
    [seconds |-> Decode(raw_data[1], 112),
     minutes |-> Decode(raw_data[2], 112),
     hours   |-> IF mode THEN Decode(raw_data[3], 16)
                 ELSE Decode(raw_data[3], 48),
     am_pm   |-> IF mode THEN Shr(BitAnd(raw_data[3], 32), 5) # 0
                 ELSE d.am_pm,
     day     |-> BitAnd(raw_data[4], 7),
     date    |-> Decode(raw_data[5], 48),
     month   |-> Decode(raw_data[6], 16),
     century |-> Shr(BitAnd(raw_data[6], Shl(1, 7)), 7),
     year    |-> Decode(raw_data[7], 240)]

ds3231_read_current_time(fail) ==
    LET raw_data == Fetched(regs, DS3231_SECONDS_REG, 7)
        rd(ok)   == i2c_read_reg(DS3231_SECONDS_REG, 7, ok)
    IN  /\ UNCHANGED <<regs, am_pm_mode, alarm_time, temperature>>
        /\ IF fail = 1
           THEN /\ Returns("read_current_time", 0, -1, <<rd(FALSE)>>)
                /\ UNCHANGED data
           ELSE /\ Returns("read_current_time", 0, 0, <<rd(TRUE)>>)
                /\ data' = TimeRecord(data, raw_data, am_pm_mode)

(***************************************************************************)
(* The alarm register mappers: ds3231_set_alarm_1 and ds3231_set_alarm_2   *)
(***************************************************************************)
\* b = (0x01 << 7): the flag is assigned, the bits below it are lost
DontCareAssigned(b) == Shl(1, 7)

\* b |= (0x01 << 7): the register takes no part in the match
DontCare(b) == BitOr(b, Shl(1, 7))

\* b &= ~(0x01 << 7): the register takes part in the match
Active(b) == BitAnd(b, BitNot(Shl(1, 7)))

\* *alarm_time after the range checks of ds3231_set_alarm_1
ClampAlarm1(a, mode) ==
    [a EXCEPT !.seconds = ClampHigh(a.seconds, 59),
              !.minutes = ClampHigh(a.minutes, 59),
              !.hours   = ClampHours(a.hours, mode),
              !.day     = ClampLowHigh(a.day, 7),
              !.date    = ClampLowHigh(a.date, 31)]

\* *alarm_time after the range checks of ds3231_set_alarm_2, whose struct
\* has no seconds
ClampAlarm2(a, mode) ==
    [a EXCEPT !.minutes = ClampHigh(a.minutes, 59),
              !.hours   = ClampHours(a.hours, mode),
              !.day     = ClampLowHigh(a.day, 7),
              !.date    = ClampLowHigh(a.date, 31)]

\* temp[0..3] after the switch of ds3231_set_alarm_1, for a valid mask
Alarm1Image(temp, a, mask, mode) ==
    LET sec == Active(bin_to_bcd(a.seconds))
        min == Active(bin_to_bcd(a.minutes))
        hrs == Active(HoursByte(a.hours, mode))
    IN  CASE mask = ON_EVERY_SECOND ->
               << DontCare(temp[1]), DontCare(temp[2]),
                  DontCare(temp[3]), DontCare(temp[4]) >>
          [] mask = ON_MATCHING_SECOND ->
               << sec, DontCare(temp[2]), DontCare(temp[3]),
                  DontCare(temp[4]) >>
          [] mask = ON_MATCHING_SECOND_AND_MINUTE ->
               << sec, min, DontCare(temp[3]), DontCare(temp[4]) >>
          [] mask = ON_MATCHING_SECOND_MINUTE_AND_HOUR ->
               << sec, min, hrs, DontCare(temp[4]) >>
          [] mask = ON_MATCHING_SECOND_MINUTE_HOUR_AND_DATE ->
               << sec, min, hrs,
                  DontCare(BitAnd(bin_to_bcd(a.date), BitNot(Shl(1, 6)))) >>
          [] mask = ON_MATCHING_SECOND_MINUTE_HOUR_AND_DAY ->
               << sec, min, hrs,
                  DontCare(BitOr(bin_to_bcd(a.day), Shl(1, 6))) >>

\* temp[0..2] after the switch of ds3231_set_alarm_2, for a valid mask
Alarm2Image(temp, a, mask, mode) ==
    LET min == Active(bin_to_bcd(a.minutes))
        hrs == Active(HoursByte(a.hours, mode))
    IN  CASE mask = ON_EVERY_MINUTE ->
               << DontCare(temp[1]), DontCare(temp[2]), DontCare(temp[3]) >>
          [] mask = ON_MATCHING_MINUTE ->
               << min, DontCare(temp[2]), DontCare(temp[3]) >>
          [] mask = ON_MATCHING_MINUTE_AND_HOUR ->
               << min, hrs, DontCare(temp[3]) >>
          [] mask = ON_MATCHING_MINUTE_HOUR_AND_DATE ->
               << min, hrs,
                  Active(BitAnd(bin_to_bcd(a.date), BitNot(Shl(1, 6)))) >>
          [] mask = ON_MATCHING_MINUTE_HOUR_AND_DAY ->
               << min, hrs,
                  Active(BitOr(bin_to_bcd(a.date), Shl(1, 6))) >>

\* EnableAlarm with the enable bit of alarm 1 in both functions
EnableAlarmOne(alarm_enable, enable_bit) == BitOr(alarm_enable, 1)

\* alarm_enable |= enable_bit
EnableAlarm(alarm_enable, enable_bit) == BitOr(alarm_enable, enable_bit)

\* The body the two set-alarm functions share: read the alarm registers,
\* clamp, build the image (or return on an invalid mask), read and write the
\* control register with the enable bit, write the alarm registers.
\* SetAlarm with the two writes in the other order: the alarm registers
\* first, the control register after them
SetAlarmProgramFirst(name, reg_addr, length, clamped, valid, image, enable_bit, mask, fail) ==
    LET rdA(ok) == i2c_read_reg(reg_addr, length, ok)
        rdC(ok) == i2c_read_reg(DS3231_CONTROL_REG, 1, ok)
        wrC(ok) == i2c_write_reg(DS3231_CONTROL_REG, 1, ok)
        wrA(ok) == i2c_write_reg(reg_addr, length, ok)
        alarm_enable == EnableAlarm(regs[DS3231_CONTROL_REG], enable_bit)
        programmed == Stored(regs, reg_addr, image)
    IN  /\ UNCHANGED <<am_pm_mode, data, temperature>>
        /\ IF fail = 1
           THEN /\ Returns(name, mask, -1, <<rdA(FALSE)>>)
                /\ UNCHANGED <<regs, alarm_time>>
           ELSE /\ alarm_time' = clamped
                /\ IF ~valid
                   THEN /\ Returns(name, mask, -1, <<rdA(TRUE)>>)
                        /\ UNCHANGED regs
                   ELSE IF fail = 2
                   THEN /\ Returns(name, mask, -1, <<rdA(TRUE), rdC(FALSE)>>)
                        /\ UNCHANGED regs
                   ELSE IF fail = 3
                   THEN /\ Returns(name, mask, -1,
                                   <<rdA(TRUE), rdC(TRUE), wrA(FALSE)>>)
                        /\ UNCHANGED regs
                   ELSE IF fail = 4
                   THEN /\ Returns(name, mask, -1,
                              <<rdA(TRUE), rdC(TRUE), wrA(TRUE), wrC(FALSE)>>)
                        /\ regs' = programmed
                   ELSE /\ Returns(name, mask, 0,
                              <<rdA(TRUE), rdC(TRUE), wrA(TRUE), wrC(TRUE)>>)
                        /\ regs' = Stored(programmed, DS3231_CONTROL_REG,
                                          <<alarm_enable>>)

SetAlarm(name, reg_addr, length, clamped, valid, image, enable_bit, mask, fail) ==
    LET rdA(ok) == i2c_read_reg(reg_addr, length, ok)
        rdC(ok) == i2c_read_reg(DS3231_CONTROL_REG, 1, ok)
        wrC(ok) == i2c_write_reg(DS3231_CONTROL_REG, 1, ok)
        wrA(ok) == i2c_write_reg(reg_addr, length, ok)
        alarm_enable == EnableAlarm(regs[DS3231_CONTROL_REG], enable_bit)
        enabled == Stored(regs, DS3231_CONTROL_REG, <<alarm_enable>>)
    IN  /\ UNCHANGED <<am_pm_mode, data, temperature>>
        /\ IF fail = 1
           THEN /\ Returns(name, mask, -1, <<rdA(FALSE)>>)
                /\ UNCHANGED <<regs, alarm_time>>
           ELSE /\ alarm_time' = clamped
                /\ IF ~valid
                   THEN /\ Returns(name, mask, -1, <<rdA(TRUE)>>)
                        /\ UNCHANGED regs
                   ELSE IF fail = 2
                   THEN /\ Returns(name, mask, -1, <<rdA(TRUE), rdC(FALSE)>>)
                        /\ UNCHANGED regs
                   ELSE IF fail = 3
                   THEN /\ Returns(name, mask, -1,
                                   <<rdA(TRUE), rdC(TRUE), wrC(FALSE)>>)
                        /\ UNCHANGED regs
                   ELSE IF fail = 4
                   THEN /\ Returns(name, mask, -1,
                              <<rdA(TRUE), rdC(TRUE), wrC(TRUE), wrA(FALSE)>>)
                        /\ regs' = enabled
                   ELSE /\ Returns(name, mask, 0,
                              <<rdA(TRUE), rdC(TRUE), wrC(TRUE), wrA(TRUE)>>)
                        /\ regs' = Stored(enabled, reg_addr, image)

ds3231_set_alarm_1(mask, fail) ==
    LET temp    == Fetched(regs, DS3231_SECONDS_ALARM_1_REG, 4)
        clamped == ClampAlarm1(alarm_time, am_pm_mode)
        valid   == mask \in ALARM_1_MASKS
        image   == IF valid THEN Alarm1Image(temp, clamped, mask, am_pm_mode)
                   ELSE temp
    IN  SetAlarm("set_alarm_1", DS3231_SECONDS_ALARM_1_REG, 4, clamped, valid,
                 image, 1, mask, fail)

\* ds3231_set_alarm_2 whose switch falls through on an unknown mask
set_alarm_2_no_default(mask, fail) ==
    LET temp    == Fetched(regs, DS3231_MINUTES_ALARM_2_REG, 3)
        clamped == ClampAlarm2(alarm_time, am_pm_mode)
        image   == IF mask \in ALARM_2_MASKS
                   THEN Alarm2Image(temp, clamped, mask, am_pm_mode)
                   ELSE temp
    IN  SetAlarm("set_alarm_2", DS3231_MINUTES_ALARM_2_REG, 3, clamped, TRUE,
                 image, 2, mask, fail)

ds3231_set_alarm_2(mask, fail) ==
    LET temp    == Fetched(regs, DS3231_MINUTES_ALARM_2_REG, 3)
        clamped == ClampAlarm2(alarm_time, am_pm_mode)
        valid   == mask \in ALARM_2_MASKS
        image   == IF valid THEN Alarm2Image(temp, clamped, mask, am_pm_mode)
                   ELSE temp
    IN  SetAlarm("set_alarm_2", DS3231_MINUTES_ALARM_2_REG, 3, clamped, valid,
                 image, 2, mask, fail)

(***************************************************************************)
(* The control and status register operations                              *)
(***************************************************************************)
\* ReadModifyWrite without the check of the read's return value
ReadModifyWriteUnchecked(name, a, reg_addr, new, fail) ==
    LET rd(ok) == i2c_read_reg(reg_addr, 1, ok)
        wr(ok) == i2c_write_reg(reg_addr, 1, ok)
    IN  /\ UNCHANGED <<am_pm_mode, data, alarm_time, temperature>>
        /\ IF fail = 2
           THEN /\ Returns(name, a, -1, <<rd(TRUE), wr(FALSE)>>)
                /\ UNCHANGED regs
           ELSE /\ Returns(name, a, 0, <<rd(fail # 1), wr(TRUE)>>)
                /\ regs' = Stored(regs, reg_addr, <<new>>)

\* ReadModifyWrite followed by a read that verifies the write
ReadModifyWriteVerified(name, a, reg_addr, new, fail) ==
    LET rd(ok) == i2c_read_reg(reg_addr, 1, ok)
        wr(ok) == i2c_write_reg(reg_addr, 1, ok)
    IN  /\ UNCHANGED <<am_pm_mode, data, alarm_time, temperature>>
        /\ IF fail = 1
           THEN /\ Returns(name, a, -1, <<rd(FALSE)>>)
                /\ UNCHANGED regs
           ELSE IF fail = 2
           THEN /\ Returns(name, a, -1, <<rd(TRUE), wr(FALSE)>>)
                /\ UNCHANGED regs
           ELSE /\ Returns(name, a, 0, <<rd(TRUE), wr(TRUE), rd(TRUE)>>)
                /\ regs' = Stored(regs, reg_addr, <<new>>)

\* The body the single-register operations share: read the register,
\* change the byte, write it back; either transaction may fail.
ReadModifyWrite(name, a, reg_addr, new, fail) ==
    LET rd(ok) == i2c_read_reg(reg_addr, 1, ok)
        wr(ok) == i2c_write_reg(reg_addr, 1, ok)
    IN  /\ UNCHANGED <<am_pm_mode, data, alarm_time, temperature>>
        /\ IF fail = 1
           THEN /\ Returns(name, a, -1, <<rd(FALSE)>>)
                /\ UNCHANGED regs
           ELSE IF fail = 2
           THEN /\ Returns(name, a, -1, <<rd(TRUE), wr(FALSE)>>)
                /\ UNCHANGED regs
           ELSE /\ Returns(name, a, 0, <<rd(TRUE), wr(TRUE)>>)
                /\ regs' = Stored(regs, reg_addr, <<new>>)

\* interrupt_enable after the if/else of ds3231_enable_alarm_interrupt
InterruptEnableByte(interrupt_enable, enable) ==
    IF enable THEN BitOr(interrupt_enable, Shl(1, 2))
    ELSE BitAnd(interrupt_enable, BitNot(Shl(1, 2)))

ds3231_enable_alarm_interrupt(enable, fail) ==
    LET new == InterruptEnableByte(regs[DS3231_CONTROL_REG], enable)
    IN  ReadModifyWrite("enable_alarm_interrupt", enable, DS3231_CONTROL_REG,
                        new, fail)

ds3231_enable_32khz_square_wave(enable, fail) ==
    LET status == regs[DS3231_CONTROL_STATUS_REG]
        new == IF enable THEN BitOr(status, Shl(1, 3))
               ELSE BitAnd(status, BitNot(Shl(1, 3)))
    IN  ReadModifyWrite("enable_32khz_square_wave", enable,
                        DS3231_CONTROL_STATUS_REG, new, fail)

\* ds3231_enable_oscillator with the sense of the flag not inverted
enable_oscillator_not_inverted(enable, fail) ==
    LET enable_byte == regs[DS3231_CONTROL_REG]
        new == IF enable THEN BitOr(enable_byte, Shl(1, 7))
               ELSE BitAnd(enable_byte, BitNot(Shl(1, 7)))
    IN  ReadModifyWrite("enable_oscillator", enable, DS3231_CONTROL_REG,
                        new, fail)

\* enable_byte after the if/else of ds3231_enable_oscillator
OscillatorEnableByte(enable_byte, enable) ==
    IF ~enable THEN BitOr(enable_byte, Shl(1, 7))
    ELSE BitAnd(enable_byte, BitNot(Shl(1, 7)))

ds3231_enable_oscillator(enable, fail) ==
    LET new == OscillatorEnableByte(regs[DS3231_CONTROL_REG], enable)
    IN  ReadModifyWrite("enable_oscillator", enable, DS3231_CONTROL_REG,
                        new, fail)

ds3231_enable_battery_backed_square_wave(enable, fail) ==
    LET enable_byte == regs[DS3231_CONTROL_REG]
        new == IF enable
               THEN BitAnd(BitOr(enable_byte, Shl(1, 6)), BitNot(Shl(1, 2)))
               ELSE BitAnd(enable_byte, BitNot(Shl(1, 6)))
    IN  ReadModifyWrite("enable_battery_backed_square_wave", enable,
                        DS3231_CONTROL_REG, new, fail)

\* ds3231_set_square_wave_frequency without the default branch
set_square_wave_frequency_no_default(sqr_frq, fail) ==
    LET enable_byte == BitAnd(regs[DS3231_CONTROL_REG], BitNot(24))
        new == BitOr(enable_byte, Shl(sqr_frq % 4, 3))
    IN  ReadModifyWrite("set_square_wave_frequency", sqr_frq,
                        DS3231_CONTROL_REG, new, fail)

ds3231_set_square_wave_frequency(sqr_frq, fail) ==
    LET enable_byte == BitAnd(regs[DS3231_CONTROL_REG], BitNot(24))
        new == BitOr(enable_byte, Shl(sqr_frq, 3))
        rd(ok) == i2c_read_reg(DS3231_CONTROL_REG, 1, ok)
    IN  IF fail # 1 /\ sqr_frq \notin SQUARE_WAVE_FREQUENCY
        THEN /\ Returns("set_square_wave_frequency", sqr_frq, -1, <<rd(TRUE)>>)
             /\ UNCHANGED <<regs, am_pm_mode, data, alarm_time, temperature>>
        ELSE ReadModifyWrite("set_square_wave_frequency", sqr_frq,
                             DS3231_CONTROL_REG, new, fail)

(***************************************************************************)
(* Two tasks that share the facade without a lock.  Task 1 calls           *)
(* ds3231_enable_alarm_interrupt and task 2 ds3231_enable_oscillator; a    *)
(* step is one register transaction, and the byte a task read stays in     *)
(* its local variable until its write.                                     *)
(***************************************************************************)
Tasks == {1, 2}

\* the byte the task's function writes for the byte it read
TaskByte(t, b, enable) ==
    IF t = 1 THEN InterruptEnableByte(b, enable)
    ELSE OscillatorEnableByte(b, enable)

Stepped(t, next_pc, r) ==
    [tasks EXCEPT !.pc[t] = next_pc, !.result[t] = r, !.clock = @ + 1]

\* the call up to and including its i2c_read_reg of the control register
TaskRead(t, enable, ok) ==
    /\ tasks.pc[t] = "idle"
    /\ tasks' = IF ok
                THEN [Stepped(t, "read", 0) EXCEPT
                         !.enable[t] = enable,
                         !.local[t] = regs[DS3231_CONTROL_REG],
                         !.rd[t] = tasks.clock + 1]
                ELSE [Stepped(t, "done", -1) EXCEPT
                         !.enable[t] = enable,
                         !.rd[t] = tasks.clock + 1]
    /\ UNCHANGED <<regs, am_pm_mode, data, alarm_time, temperature, op, arg,
                   ret, bus, pre, prev, calls>>

\* the write step that reads the register afresh instead of using the
\* byte the task holds
TaskWriteFresh(t, ok) ==
    /\ tasks.pc[t] = "read"
    /\ tasks' = [Stepped(t, "done", IF ok THEN 0 ELSE -1) EXCEPT
                    !.wr[t] = tasks.clock + 1]
    /\ regs' = IF ok
               THEN Stored(regs, DS3231_CONTROL_REG,
                      <<TaskByte(t, regs[DS3231_CONTROL_REG], tasks.enable[t])>>)
               ELSE regs
    /\ UNCHANGED <<am_pm_mode, data, alarm_time, temperature, op, arg, ret,
                   bus, pre, prev, calls>>

\* the rest of the call: the if/else on the local byte, the
\* i2c_write_reg of the control register and the return
TaskWrite(t, ok) ==
    /\ tasks.pc[t] = "read"
    /\ tasks' = [Stepped(t, "done", IF ok THEN 0 ELSE -1) EXCEPT
                    !.wr[t] = tasks.clock + 1]
    /\ regs' = IF ok
               THEN Stored(regs, DS3231_CONTROL_REG,
                      <<TaskByte(t, tasks.local[t], tasks.enable[t])>>)
               ELSE regs
    /\ UNCHANGED <<am_pm_mode, data, alarm_time, temperature, op, arg, ret,
                   bus, pre, prev, calls>>

(***************************************************************************)
(* The temperature sensor                                                  *)
(***************************************************************************)
\* ds3231_force_convert_temperature without the test of the busy flag
force_convert_temperature_while_busy(fail) ==
    LET status == BitOr(regs[DS3231_CONTROL_REG], Shl(1, 5))
        rdS(ok) == i2c_read_reg(DS3231_CONTROL_STATUS_REG, 1, ok)
        rdC(ok) == i2c_read_reg(DS3231_CONTROL_REG, 1, ok)
        wrC(ok) == i2c_write_reg(DS3231_CONTROL_REG, 1, ok)
        name == "force_convert_temperature"
    IN  /\ UNCHANGED <<am_pm_mode, data, alarm_time, temperature>>
        /\ IF fail = 1
           THEN Returns(name, 0, -1, <<rdS(FALSE)>>) /\ UNCHANGED regs
           ELSE IF fail = 2
           THEN /\ Returns(name, 0, -1, <<rdS(TRUE), rdC(FALSE)>>)
                /\ UNCHANGED regs
           ELSE IF fail = 3
           THEN /\ Returns(name, 0, -1, <<rdS(TRUE), rdC(TRUE), wrC(FALSE)>>)
                /\ UNCHANGED regs
           ELSE /\ Returns(name, 0, 0, <<rdS(TRUE), rdC(TRUE), wrC(TRUE)>>)
                /\ regs' = Stored(regs, DS3231_CONTROL_REG, <<status>>)

ds3231_force_convert_temperature(fail) ==
    LET busy   == BitAnd(regs[DS3231_CONTROL_STATUS_REG], Shl(1, 2)) # 0
        status == BitOr(regs[DS3231_CONTROL_REG], Shl(1, 5))
        rdS(ok) == i2c_read_reg(DS3231_CONTROL_STATUS_REG, 1, ok)
        rdC(ok) == i2c_read_reg(DS3231_CONTROL_REG, 1, ok)
        wrC(ok) == i2c_write_reg(DS3231_CONTROL_REG, 1, ok)
        name == "force_convert_temperature"
    IN  /\ UNCHANGED <<am_pm_mode, data, alarm_time, temperature>>
        /\ IF fail = 1
           THEN Returns(name, 0, -1, <<rdS(FALSE)>>) /\ UNCHANGED regs
           ELSE IF busy
           THEN Returns(name, 0, -1, <<rdS(TRUE)>>) /\ UNCHANGED regs
           ELSE IF fail = 2
           THEN /\ Returns(name, 0, -1, <<rdS(TRUE), rdC(FALSE)>>)
                /\ UNCHANGED regs
           ELSE IF fail = 3
           THEN /\ Returns(name, 0, -1, <<rdS(TRUE), rdC(TRUE), wrC(FALSE)>>)
                /\ UNCHANGED regs
           ELSE /\ Returns(name, 0, 0, <<rdS(TRUE), rdC(TRUE), wrC(TRUE)>>)
                /\ regs' = Stored(regs, DS3231_CONTROL_REG, <<status>>)

\* What 1 / 0 evaluates to.  The division is an int division by
\* (temp[1] >> 6), which is 0 for a fraction of .00: undefined behaviour.
\* The RP2040 has no divide instruction and raises no fault; its divider
\* yields a quotient, which the build may also fold to anything.
DivideByZeroQuotients == {-1, 0, 1}

\* *temperature, in quarter degrees:
\* temp[0] + (float)(1 / (temp[1] >> 6))
Temperature(temp, undefined) ==
    LET divisor  == Shr(temp[2], 6)
        quotient == IF divisor = 0 THEN undefined ELSE 1 \div divisor
    IN  4 * (temp[1] + quotient)

ds3231_read_temperature(fail, undefined) ==
    LET temp   == Fetched(regs, DS3231_TEMPERATURE_MSB_REG, 2)
        rd(ok) == i2c_read_reg(DS3231_TEMPERATURE_MSB_REG, 2, ok)
    IN  /\ UNCHANGED <<regs, am_pm_mode, data, alarm_time>>
        /\ IF fail = 1
           THEN /\ Returns("read_temperature", 0, -1, <<rd(FALSE)>>)
                /\ UNCHANGED temperature
           ELSE /\ Returns("read_temperature", 0, 0, <<rd(TRUE)>>)
                /\ temperature' = Temperature(temp, undefined)

ds3231_check_oscillator_stop_flag(fail) ==
    LET status == regs[DS3231_CONTROL_STATUS_REG]
        rd(ok) == i2c_read_reg(DS3231_CONTROL_STATUS_REG, 1, ok)
        name   == "check_oscillator_stop_flag"
    IN  /\ UNCHANGED <<regs, am_pm_mode, data, alarm_time, temperature>>
        /\ IF fail = 1
           THEN Returns(name, 0, -1, <<rd(FALSE)>>)
           ELSE IF BitAnd(status, Shl(1, 7)) # 0
           THEN Returns(name, 0, 1, <<rd(TRUE)>>)
           ELSE Returns(name, 0, 0, <<rd(TRUE)>>)

ds3231_set_aging_offset(offset, fail) ==
    LET aging_offset == offset % 256
        wr(ok) == i2c_write_reg(DS3231_AGING_OFFSET_REG, 1, ok)
    IN  /\ UNCHANGED <<am_pm_mode, data, alarm_time, temperature>>
        /\ IF fail = 1
           THEN /\ Returns("set_aging_offset", offset, -1, <<wr(FALSE)>>)
                /\ UNCHANGED regs
           ELSE /\ Returns("set_aging_offset", offset, 0, <<wr(TRUE)>>)
                /\ regs' = Stored(regs, DS3231_AGING_OFFSET_REG,
                                  <<aging_offset>>)

(***************************************************************************)
(* The caller's structs and the device's prior contents                    *)
(***************************************************************************)
\* ds3231_data of the example's main
ExampleData ==
    [seconds |-> 25, minutes |-> 23, hours |-> 23, am_pm |-> FALSE,
     day |-> 4, date |-> 10, month |-> 8, century |-> 1, year |-> 23]

\* alarm of the example's main
ExampleAlarm ==
    [seconds |-> 7, minutes |-> 25, hours |-> 0, am_pm |-> FALSE,
     day |-> 0, date |-> 0]

\* an in-range afternoon reading, valid in both hour modes
AfternoonData ==
    [seconds |-> 59, minutes |-> 30, hours |-> 11, am_pm |-> TRUE,
     day |-> 7, date |-> 31, month |-> 12, century |-> 0, year |-> 99]

TimeFields ==
    {"seconds", "minutes", "hours", "day", "date", "month", "century", "year"}

\* every 8-bit value of every field, one field at a time
TimeInputs ==
    {[AfternoonData EXCEPT ![f] = v] : f \in TimeFields, v \in Byte}
    \cup {[ExampleData EXCEPT !.hours = v] : v \in Byte}

\* alarm specifications in and out of range, day and date different
AlarmInputs ==
    { ExampleAlarm,
      [seconds |-> 59, minutes |-> 59, hours |-> 12, am_pm |-> TRUE,
       day |-> 3, date |-> 15],
      [seconds |-> 30, minutes |-> 45, hours |-> 23, am_pm |-> FALSE,
       day |-> 7, date |-> 31],
      [seconds |-> 60, minutes |-> 255, hours |-> 24, am_pm |-> FALSE,
       day |-> 8, date |-> 32],
      [seconds |-> 255, minutes |-> 60, hours |-> 13, am_pm |-> TRUE,
       day |-> 255, date |-> 1] }

\* the byte every device register holds before the first call
PriorFill == {0, 255, 90, 165}

\* masks and frequencies outside their enumerations
InvalidSelectors == {4, 9, 255}

\* the state after ds3231_init, with `d` and `a` in the caller's structs
\* and the device holding `r`
\* no task has called anything yet
Idle ==
    [pc     |-> [t \in Tasks |-> "idle"],
     enable |-> [t \in Tasks |-> FALSE],
     local  |-> [t \in Tasks |-> 0],
     result |-> [t \in Tasks |-> 0],
     rd     |-> [t \in Tasks |-> 0],
     wr     |-> [t \in Tasks |-> 0],
     clock  |-> 0]

InitWith(r, d, a) ==
    /\ regs = r
    /\ am_pm_mode = FALSE
    /\ data = d
    /\ alarm_time = a
    /\ temperature = 0
    /\ op = "init"
    /\ arg = 0
    /\ ret = 0
    /\ bus = <<>>
    /\ pre = [regs |-> r, am_pm_mode |-> FALSE, data |-> d, alarm_time |-> a]
    /\ prev = [op |-> "none", ret |-> 0]
    /\ calls = 0
    /\ tasks = Idle

Filled(b) == [a \in RegAddr |-> b]

(***************************************************************************)
(* The facade with a bus that may fail: every operation, small inputs      *)
(***************************************************************************)
MaxCalls == 2

\* the caller makes at most n calls
Within(n) == calls < n

Init ==
    \E b \in PriorFill : InitWith(Filled(b), ExampleData, ExampleAlarm)

Next ==
    \/ \E e \in BOOLEAN, f \in 0..2 :
          Within(MaxCalls) /\ ds3231_enable_am_pm_mode(e, f)
    \/ \E f \in 0..2 : Within(MaxCalls) /\ ds3231_configure_time(f)
    \/ \E f \in 0..1 : Within(MaxCalls) /\ ds3231_read_current_time(f)
    \/ \E m \in ALARM_1_MASKS \cup InvalidSelectors, f \in 0..4 :
          Within(MaxCalls) /\ ds3231_set_alarm_1(m, f)
    \/ \E m \in ALARM_2_MASKS \cup InvalidSelectors, f \in 0..4 :
          Within(MaxCalls) /\ ds3231_set_alarm_2(m, f)
    \/ \E e \in BOOLEAN, f \in 0..2 :
          Within(MaxCalls) /\ ds3231_enable_alarm_interrupt(e, f)
    \/ \E e \in BOOLEAN, f \in 0..2 :
          Within(MaxCalls) /\ ds3231_enable_32khz_square_wave(e, f)
    \/ \E e \in BOOLEAN, f \in 0..2 :
          Within(MaxCalls) /\ ds3231_enable_oscillator(e, f)
    \/ \E e \in BOOLEAN, f \in 0..2 :
          Within(MaxCalls) /\ ds3231_enable_battery_backed_square_wave(e, f)
    \/ \E q \in SQUARE_WAVE_FREQUENCY \cup InvalidSelectors, f \in 0..2 :
          Within(MaxCalls) /\ ds3231_set_square_wave_frequency(q, f)
    \/ \E f \in 0..3 : Within(MaxCalls) /\ ds3231_force_convert_temperature(f)
    \/ \E f \in 0..1, u \in DivideByZeroQuotients :
          Within(MaxCalls) /\ ds3231_read_temperature(f, u)
    \/ \E f \in 0..1 : Within(MaxCalls) /\ ds3231_check_oscillator_stop_flag(f)
    \/ \E o \in {-128, -1, 0, 127}, f \in 0..1 :
          Within(MaxCalls) /\ ds3231_set_aging_offset(o, f)

Spec == Init /\ [][Next]_vars

(***************************************************************************)
(* The numeric codec alone, on every 8-bit value                           *)
(***************************************************************************)
CallBinToBcd(v) ==
    /\ Returns("bin_to_bcd", v, bin_to_bcd(v), <<>>)
    /\ UNCHANGED <<regs, am_pm_mode, data, alarm_time, temperature>>

CallBinToBcdAmPm(v) ==
    /\ Returns("bin_to_bcd_am_pm", v, bin_to_bcd_am_pm(v), <<>>)
    /\ UNCHANGED <<regs, am_pm_mode, data, alarm_time, temperature>>

MaxCodecCalls == 1

InitCodec == InitWith(Filled(0), ExampleData, ExampleAlarm)

NextCodec ==
    \/ \E v \in Byte : Within(MaxCodecCalls) /\ CallBinToBcd(v)
    \/ \E v \in Byte : Within(MaxCodecCalls) /\ CallBinToBcdAmPm(v)

SpecCodec == InitCodec /\ [][NextCodec]_vars

(***************************************************************************)
(* The clock mapper with a working bus, on every 8-bit value of each field *)
(***************************************************************************)
MaxClockCalls == 3

InitClock ==
    \E b \in {0, 255}, d \in TimeInputs :
        InitWith(Filled(b), d, ExampleAlarm)

NextClock ==
    \/ \E e \in BOOLEAN :
          Within(MaxClockCalls) /\ ds3231_enable_am_pm_mode(e, 0)
    \/ Within(MaxClockCalls) /\ ds3231_configure_time(0)
    \/ Within(MaxClockCalls) /\ ds3231_read_current_time(0)

SpecClock == InitClock /\ [][NextClock]_vars

(***************************************************************************)
(* The alarm mappers with a working bus                                    *)
(***************************************************************************)
InitAlarm ==
    \E b \in PriorFill, a \in AlarmInputs :
        InitWith(Filled(b), ExampleData, a)

NextAlarm ==
    \/ \E e \in BOOLEAN : Within(MaxCalls) /\ ds3231_enable_am_pm_mode(e, 0)
    \/ \E m \in ALARM_1_MASKS \cup InvalidSelectors :
          Within(MaxCalls) /\ ds3231_set_alarm_1(m, 0)
    \/ \E m \in ALARM_2_MASKS \cup InvalidSelectors :
          Within(MaxCalls) /\ ds3231_set_alarm_2(m, 0)

SpecAlarm == InitAlarm /\ [][NextAlarm]_vars

(***************************************************************************)
(* The temperature read with a working bus, on every MSB and LSB           *)
(***************************************************************************)
MaxTemperatureCalls == 1

InitTemperature ==
    \E msb \in Byte, lsb \in Byte :
        InitWith([Filled(0) EXCEPT ![DS3231_TEMPERATURE_MSB_REG] = msb,
                                   ![DS3231_TEMPERATURE_LSB_REG] = lsb],
                 ExampleData, ExampleAlarm)

NextTemperature ==
    \E u \in DivideByZeroQuotients :
        Within(MaxTemperatureCalls) /\ ds3231_read_temperature(0, u)

SpecTemperature == InitTemperature /\ [][NextTemperature]_vars

(***************************************************************************)
(* The control register with the alarms, from every prior control byte     *)
(***************************************************************************)
InitControl ==
    \E c \in Byte :
        InitWith([Filled(0) EXCEPT ![DS3231_CONTROL_REG] = c],
                 ExampleData, ExampleAlarm)

NextControl ==
    \/ \E e \in BOOLEAN : Within(MaxCalls) /\ ds3231_enable_am_pm_mode(e, 0)
    \/ \E m \in ALARM_1_MASKS \cup InvalidSelectors :
          Within(MaxCalls) /\ ds3231_set_alarm_1(m, 0)
    \/ \E m \in ALARM_2_MASKS \cup InvalidSelectors :
          Within(MaxCalls) /\ ds3231_set_alarm_2(m, 0)

SpecControl == InitControl /\ [][NextControl]_vars

(***************************************************************************)
(* The hour mode of the device and of the facade: the clock keeps running  *)
(* on its battery, so ds3231_init may meet any hours byte.                 *)
(***************************************************************************)
InitDecode ==
    \E h \in Byte :
        InitWith([Filled(0) EXCEPT ![DS3231_HOURS_REG] = h],
                 ExampleData, ExampleAlarm)

NextDecode ==
    \/ \E e \in BOOLEAN, f \in 0..2 :
          Within(MaxCalls) /\ ds3231_enable_am_pm_mode(e, f)
    \/ \E f \in 0..2 : Within(MaxCalls) /\ ds3231_configure_time(f)
    \/ \E f \in 0..1 : Within(MaxCalls) /\ ds3231_read_current_time(f)

SpecDecode == InitDecode /\ [][NextDecode]_vars

(***************************************************************************)
(* The two tasks on every prior control byte, steps in any order           *)
(***************************************************************************)
InitInterleaved ==
    \E c \in Byte :
        InitWith([Filled(0) EXCEPT ![DS3231_CONTROL_REG] = c],
                 ExampleData, ExampleAlarm)

NextInterleaved ==
    \/ \E t \in Tasks, e \in BOOLEAN, ok \in BOOLEAN : TaskRead(t, e, ok)
    \/ \E t \in Tasks, ok \in BOOLEAN : TaskWrite(t, ok)

SpecInterleaved == InitInterleaved /\ [][NextInterleaved]_vars

(***************************************************************************)
(* The mode flag of the facade against the mode bit of the device: from    *)
(* ds3231_init on a device in 24-hour mode, with a bus that may fail       *)
(***************************************************************************)
InitMode ==
    \E h \in {b \in Byte : Bit(b, 6) = 0} :
        InitWith([Filled(0) EXCEPT ![DS3231_HOURS_REG] = h],
                 ExampleData, ExampleAlarm)

NextMode ==
    \/ \E e \in BOOLEAN, f \in 0..2 :
          Within(MaxCalls) /\ ds3231_enable_am_pm_mode(e, f)
    \/ \E f \in 0..2 : Within(MaxCalls) /\ ds3231_configure_time(f)

SpecMode == InitMode /\ [][NextMode]_vars

(***************************************************************************)
(* Properties                                                              *)
(***************************************************************************)
\* the packed-decimal form of v in 0..99: tens in bits 4-7, ones in bits 0-3
Packed(v) == 16 * (v \div 10) + (v % 10)

\* the fields of a ClockReading are in range for the hour mode
InRange(d, mode) ==
    /\ d.seconds \in 0..59
    /\ d.minutes \in 0..59
    /\ d.hours \in (IF mode THEN 1..12 ELSE 0..23)
    /\ d.day \in 1..7
    /\ d.date \in 1..31
    /\ d.month \in 1..12
    /\ d.year \in 0..99
    /\ d.century \in {0, 1}

SameReading(d, e, mode) ==
    /\ d.seconds = e.seconds
    /\ d.minutes = e.minutes
    /\ d.hours = e.hours
    /\ mode => (d.am_pm = e.am_pm)
    /\ d.day = e.day
    /\ d.date = e.date
    /\ d.month = e.month
    /\ d.century = e.century
    /\ d.year = e.year

\* C1: a successful ds3231_configure_time of an in-range reading followed
\* by a successful ds3231_read_current_time on the same facade returns the
\* reading written, in both hour modes (the meridiem flag compared in
\* 12-hour mode only).
C1_RoundTrip ==
    ( /\ op = "read_current_time" /\ ret = 0
      /\ prev.op = "configure_time" /\ prev.ret = 0
      /\ InRange(pre.data, am_pm_mode) )
    => SameReading(data, pre.data, am_pm_mode)

\* C2: bin_to_bcd_am_pm(v) is packed(v - 12) with bit 5 set for v in
\* 13..23, and packed(v) with bit 5 clear for v in 1..12.
C2_MeridiemCodec ==
    (op = "bin_to_bcd_am_pm" /\ arg \in 1..23)
    => ret = (IF arg > 12 THEN Packed(arg - 12) + 32 ELSE Packed(arg))

\* the number of leading alarm registers a match mode makes active
Ladder1(mask) ==
    CASE mask = ON_EVERY_SECOND -> 0
      [] mask = ON_MATCHING_SECOND -> 1
      [] mask = ON_MATCHING_SECOND_AND_MINUTE -> 2
      [] mask = ON_MATCHING_SECOND_MINUTE_AND_HOUR -> 3
      [] mask = ON_MATCHING_SECOND_MINUTE_HOUR_AND_DATE -> 4
      [] mask = ON_MATCHING_SECOND_MINUTE_HOUR_AND_DAY -> 4

Ladder2(mask) ==
    CASE mask = ON_EVERY_MINUTE -> 0
      [] mask = ON_MATCHING_MINUTE -> 1
      [] mask = ON_MATCHING_MINUTE_AND_HOUR -> 2
      [] mask = ON_MATCHING_MINUTE_HOUR_AND_DATE -> 3
      [] mask = ON_MATCHING_MINUTE_HOUR_AND_DAY -> 3

\* the offsets, among `length` registers from reg_addr, with bit 7 clear
ActiveRegisters(reg_addr, length) ==
    {i \in 0..(length - 1) : Bit(regs[reg_addr + i], 7) = 0}

\* C3: after a successful set-alarm call the registers with bit 7 clear
\* are exactly the first 0, 1, 2, 3, 4, 4 (alarm 1) or 0, 1, 2, 3, 3
\* (alarm 2) registers of the alarm, by match mode.
C3_AlarmLadder ==
    /\ (op = "set_alarm_1" /\ ret = 0)
       => ActiveRegisters(DS3231_SECONDS_ALARM_1_REG, 4)
            = 0..(Ladder1(arg) - 1)
    /\ (op = "set_alarm_2" /\ ret = 0)
       => ActiveRegisters(DS3231_MINUTES_ALARM_2_REG, 3)
            = 0..(Ladder2(arg) - 1)

\* the last alarm register selects the date (bit 6 clear) or the day of
\* the week (bit 6 set) and holds that field of the clamped AlarmSpec
SelectsDate(b) == Bit(b, 6) = 0 /\ b % 64 = Packed(alarm_time.date)

SelectsDay(b) == Bit(b, 6) = 1 /\ b % 64 = Packed(alarm_time.day)

\* C4: after a successful set-alarm call in a ..._AND_DATE mode the last
\* alarm register has bit 6 clear and holds the packed date; in a
\* ..._AND_DAY mode it has bit 6 set and holds the packed day of the week.
C4_DateOrDay ==
    /\ (op = "set_alarm_1" /\ ret = 0)
       => /\ arg = ON_MATCHING_SECOND_MINUTE_HOUR_AND_DATE
               => SelectsDate(regs[DS3231_SECONDS_ALARM_1_REG + 3])
          /\ arg = ON_MATCHING_SECOND_MINUTE_HOUR_AND_DAY
               => SelectsDay(regs[DS3231_SECONDS_ALARM_1_REG + 3])
    /\ (op = "set_alarm_2" /\ ret = 0)
       => /\ arg = ON_MATCHING_MINUTE_HOUR_AND_DATE
               => SelectsDate(regs[DS3231_MINUTES_ALARM_2_REG + 2])
          /\ arg = ON_MATCHING_MINUTE_HOUR_AND_DAY
               => SelectsDay(regs[DS3231_MINUTES_ALARM_2_REG + 2])

\* bit n of the control register is set and every other bit is as it was
\* when the call was made
ControlBitSet(n) ==
    /\ Bit(regs[DS3231_CONTROL_REG], n) = 1
    /\ \A i \in (0..7) \ {n} :
          Bit(regs[DS3231_CONTROL_REG], i) = Bit(pre.regs[DS3231_CONTROL_REG], i)

\* C5: a successful ds3231_set_alarm_1 leaves control bit 0 set, a
\* successful ds3231_set_alarm_2 leaves control bit 1 set, and neither
\* changes any other control bit.
C5_AlarmEnable ==
    /\ (op = "set_alarm_1" /\ ret = 0) => ControlBitSet(0)
    /\ (op = "set_alarm_2" /\ ret = 0) => ControlBitSet(1)

C5_Witness ==
    /\ op = "set_alarm_2" /\ ret = 0
    /\ arg = ON_MATCHING_MINUTE_AND_HOUR
    /\ pre.regs[DS3231_CONTROL_REG] = 165
    /\ regs[DS3231_CONTROL_REG] = 167

\* the operations that read a register and then write it back
ReadThenWrite ==
    {"enable_am_pm_mode", "enable_alarm_interrupt", "enable_oscillator",
     "enable_32khz_square_wave", "enable_battery_backed_square_wave",
     "set_square_wave_frequency", "force_convert_temperature",
     "configure_time", "set_alarm_1", "set_alarm_2"}

\* the call issued no write transaction after its i-th transaction
NoWriteAfter(i) == \A j \in (i + 1)..Len(bus) : bus[j].kind # "write"

\* C6: when a read transaction of a read-then-write operation fails, the
\* operation returns -1, issues no write transaction afterwards, and
\* leaves every device register as it was.
C6_ReadFailureStopsCall ==
    op \in ReadThenWrite
    => \A i \in 1..Len(bus) :
          (bus[i].kind = "read" /\ ~bus[i].ok)
          => ret = -1 /\ NoWriteAfter(i) /\ regs = pre.regs

C6_Witness ==
    /\ op = "set_alarm_1" /\ ret = -1
    /\ Len(bus) = 2
    /\ bus[1].kind = "read" /\ bus[1].ok
    /\ bus[2].kind = "read" /\ ~bus[2].ok
    /\ regs = pre.regs

\* the call was given a selector outside its enumeration
InvalidSelector ==
    \/ op = "set_alarm_1" /\ arg \notin ALARM_1_MASKS
    \/ op = "set_alarm_2" /\ arg \notin ALARM_2_MASKS
    \/ op = "set_square_wave_frequency" /\ arg \notin 0..3

\* C7: a set-alarm call with a mask outside the match modes, or a
\* set-square-wave-frequency call with a value outside 0..3, returns -1,
\* performs no write transaction and leaves every device register as it was.
C7_InvalidSelectorNoWrite ==
    InvalidSelector => ret = -1 /\ NoWriteAfter(0) /\ regs = pre.regs

C7_Witness ==
    /\ op = "set_square_wave_frequency" /\ arg = 4 /\ ret = -1
    /\ Len(bus) = 1 /\ bus[1].kind = "read" /\ bus[1].ok
    /\ regs = pre.regs

\* v replaced by the nearest of lo..hi
Nearest(v, lo, hi) == IF v < lo THEN lo ELSE IF v > hi THEN hi ELSE v

\* the reading with each out-of-range field replaced by its nearest bound
NearestReading(d, mode) ==
    [seconds |-> Nearest(d.seconds, 0, 59),
     minutes |-> Nearest(d.minutes, 0, 59),
     hours   |-> IF mode THEN Nearest(d.hours, 1, 12)
                 ELSE Nearest(d.hours, 0, 23),
     am_pm   |-> d.am_pm,
     day     |-> Nearest(d.day, 1, 7),
     date    |-> Nearest(d.date, 1, 31),
     month   |-> Nearest(d.month, 1, 12),
     century |-> d.century,
     year    |-> Nearest(d.year, 0, 99)]

\* C8: with a working bus ds3231_configure_time returns success for every
\* 8-bit value of every field, leaves in the record each out-of-range field
\* replaced by its nearest bound and writes the image of that record; called
\* again with the already-clamped record it writes the identical 7 bytes.
C8_ClampFixedPoint ==
    op = "configure_time"
    => /\ ret = 0
       /\ data = NearestReading(pre.data, am_pm_mode)
       /\ Fetched(regs, DS3231_SECONDS_REG, 7)
            = TimeImage(NearestReading(pre.data, am_pm_mode), am_pm_mode)
       /\ prev.op = "configure_time"
            => /\ data = pre.data
               /\ Fetched(regs, DS3231_SECONDS_REG, 7)
                    = Fetched(pre.regs, DS3231_SECONDS_REG, 7)

C8_Witness ==
    /\ op = "configure_time" /\ ret = 0 /\ am_pm_mode
    /\ pre.data.day = 0 /\ data.day = 1
    /\ regs[DS3231_SECONDS_REG + 3] = 1

\* C9: in the image written by a successful ds3231_configure_time, bit 6
\* of the hours byte is 1 exactly when the facade is in 12-hour mode,
\* whatever the hours given and the hours byte the device held.
C9_ModeBitMirrorsMode ==
    (op = "configure_time" /\ ret = 0)
    => (Bit(regs[DS3231_HOURS_REG], 6) = 1 <=> am_pm_mode)

C9_Witness ==
    /\ op = "configure_time" /\ ret = 0 /\ ~am_pm_mode
    /\ Bit(pre.regs[DS3231_HOURS_REG], 6) = 1
    /\ pre.data.hours = 255
    /\ Bit(regs[DS3231_HOURS_REG], 6) = 0

\* a byte as a signed 8-bit value
Signed(b) == IF b >= 128 THEN b - 256 ELSE b

\* C10: ds3231_read_temperature succeeds and yields, in quarter degrees,
\* 4 * (MSB as a signed 8-bit value) + (LSB >> 6), for every MSB and LSB.
C10_TemperatureDecode ==
    op = "read_temperature"
    => /\ ret = 0
       /\ temperature
            = 4 * Signed(pre.regs[DS3231_TEMPERATURE_MSB_REG])
              + Shr(pre.regs[DS3231_TEMPERATURE_LSB_REG], 6)

(***************************************************************************)
(* The every-tick alarm modes                                              *)
(***************************************************************************)
LowSeven(b) == b % 128

FlagOnly(r, before, reg_addr, length) ==
    \A i \in 0..(length - 1) :
        /\ Bit(r[reg_addr + i], 7) = 1
        /\ LowSeven(r[reg_addr + i]) = LowSeven(before[reg_addr + i])

\* C11: after a successful ds3231_set_alarm_1 with ON_EVERY_SECOND the four
\* alarm-1 registers, and after a successful ds3231_set_alarm_2 with
\* ON_EVERY_MINUTE the three alarm-2 registers, all have bit 7 set and keep
\* in bits 0..6 the value they held before the call.
C11_EveryTick ==
    /\ (op = "set_alarm_1" /\ ret = 0 /\ arg = ON_EVERY_SECOND)
        => FlagOnly(regs, pre.regs, DS3231_SECONDS_ALARM_1_REG, 4)
    /\ (op = "set_alarm_2" /\ ret = 0 /\ arg = ON_EVERY_MINUTE)
        => FlagOnly(regs, pre.regs, DS3231_MINUTES_ALARM_2_REG, 3)

\* an every-second alarm written over registers that held 0x5A
C11_Witness ==
    /\ op = "set_alarm_1" /\ ret = 0 /\ arg = ON_EVERY_SECOND
    /\ \A i \in 0..3 : pre.regs[DS3231_SECONDS_ALARM_1_REG + i] = 90
    /\ \A i \in 0..3 : regs[DS3231_SECONDS_ALARM_1_REG + i] = 218

(***************************************************************************)
(* The packed-decimal encoder                                              *)
(***************************************************************************)
HighNibble(b) == b \div 16

LowNibble(b) == b % 16

\* C12: for every value 0..99 bin_to_bcd returns the byte whose high nibble
\* is the tens digit and whose low nibble is the ones digit, so that
\* 10 * high nibble + low nibble gives the value back.
C12_EncodeTwoDigits ==
    (op = "bin_to_bcd" /\ arg \in 0..99)
    => /\ ret \in Byte
       /\ HighNibble(ret) = arg \div 10
       /\ LowNibble(ret) = arg % 10
       /\ 10 * HighNibble(ret) + LowNibble(ret) = arg

\* 59 is encoded as 0x59
C12_Witness == op = "bin_to_bcd" /\ arg = 59 /\ ret = 89

(***************************************************************************)
(* The alarm interrupt and the battery-backed square wave                  *)
(***************************************************************************)
InterruptAndSquareWave(r) ==
    /\ Bit(r[DS3231_CONTROL_REG], 2) = 1
    /\ Bit(r[DS3231_CONTROL_REG], 6) = 1

\* C13: from a control register in which bits 2 and 6 are not both set, no
\* successful facade operation leads to a control register in which bit 2
\* (alarm interrupt) and bit 6 (battery-backed square wave) are both set.
C13_MutuallyExclusive ==
    [][(~InterruptAndSquareWave(regs) /\ ret' = 0)
       => ~InterruptAndSquareWave(regs')]_vars

(***************************************************************************)
(* The forced temperature conversion                                       *)
(***************************************************************************)
Busy(r) == Bit(r[DS3231_CONTROL_STATUS_REG], 2) = 1

BusWorks == \A i \in 1..Len(bus) : bus[i].ok

NoWrite == \A i \in 1..Len(bus) : bus[i].kind # "write"

NoWriteTo(reg_addr) ==
    \A i \in 1..Len(bus) : bus[i].kind = "write" => bus[i].reg # reg_addr

StatusWasRead ==
    /\ Len(bus) >= 1
    /\ bus[1] = i2c_read_reg(DS3231_CONTROL_STATUS_REG, 1, TRUE)

OnlyControlChanged ==
    \A a \in RegAddr : a # DS3231_CONTROL_REG => regs[a] = pre.regs[a]

\* C14: when ds3231_force_convert_temperature reads a status register with
\* bit 2 (busy) set it returns failure, issues no write and leaves every
\* register as it was; when the bit is clear and the bus works it returns
\* success, the control register is its prior value with bit 5 set, and the
\* status register is not written.
C14_ForceConvert ==
    op = "force_convert_temperature"
    => /\ (StatusWasRead /\ Busy(pre.regs))
          => (ret = -1 /\ NoWrite /\ regs = pre.regs)
       /\ (BusWorks /\ ~Busy(pre.regs))
          => /\ ret = 0
             /\ regs[DS3231_CONTROL_REG]
                  = BitOr(pre.regs[DS3231_CONTROL_REG], 32)
             /\ OnlyControlChanged
             /\ NoWriteTo(DS3231_CONTROL_STATUS_REG)

\* a conversion refused because the status register 0xA5 has the busy flag
C14_Witness ==
    /\ op = "force_convert_temperature"
    /\ pre.regs[DS3231_CONTROL_STATUS_REG] = 165
    /\ StatusWasRead /\ Len(bus) = 1 /\ ret = -1

(***************************************************************************)
(* When the selector is examined                                           *)
(***************************************************************************)
\* the registers a call reads before it looks at its selector
FirstRead ==
    [kind |-> "read",
     reg  |-> IF op = "set_alarm_1" THEN DS3231_SECONDS_ALARM_1_REG
              ELSE IF op = "set_alarm_2" THEN DS3231_MINUTES_ALARM_2_REG
              ELSE DS3231_CONTROL_REG,
     len  |-> IF op = "set_alarm_1" THEN 4
              ELSE IF op = "set_alarm_2" THEN 3 ELSE 1]

\* C15 as stated: a call with a selector outside its enumeration returns
\* failure before it has issued any bus transaction.
C15_NoTransaction == InvalidSelector => (ret = -1 /\ bus = <<>>)

\* C15: a call with a selector outside its enumeration returns failure
\* after exactly one transaction, the read of the alarm registers
\* (set-alarm) or of the control register (set-square-wave-frequency) that
\* opens the call, and before any other transaction.
C15_SelectorAfterFirstRead ==
    InvalidSelector
    => /\ ret = -1
       /\ Len(bus) = 1
       /\ [kind |-> bus[1].kind, reg |-> bus[1].reg, len |-> bus[1].len]
            = FirstRead

\* alarm 2 asked for the mask 9: its three registers were read, then -1
C15_Witness ==
    /\ op = "set_alarm_2" /\ arg = 9 /\ ret = -1
    /\ bus = <<i2c_read_reg(DS3231_MINUTES_ALARM_2_REG, 3, TRUE)>>

(***************************************************************************)
(* The frame of the single-field operations                                *)
(***************************************************************************)
Flag(b) == IF b THEN 1 ELSE 0

\* the call changed nothing on the device but the bits `field` of the
\* register `reg_addr`, and wrote no other register
OnlyField(reg_addr, field) ==
    /\ \A n \in (0..7) \ field :
          Bit(regs[reg_addr], n) = Bit(pre.regs[reg_addr], n)
    /\ \A a \in RegAddr \ {reg_addr} : regs[a] = pre.regs[a]
    /\ \A i \in 1..Len(bus) :
          bus[i].kind = "write" => (bus[i].reg = reg_addr /\ bus[i].len = 1)

\* C16: on success ds3231_enable_alarm_interrupt changes only control bit 2,
\* ds3231_enable_oscillator only control bit 7 (cleared when enable is true,
\* set when false), ds3231_enable_32khz_square_wave only status bit 3,
\* ds3231_enable_am_pm_mode only bit 6 of the hours register and
\* ds3231_set_square_wave_frequency only control bits 3-4 (set to the enum
\* value); every other bit of the register keeps the value read at the
\* start of the call and no other register is written.
C16_SingleFieldFrame ==
    ret = 0
    => /\ op = "enable_alarm_interrupt"
          => /\ OnlyField(DS3231_CONTROL_REG, {2})
             /\ Bit(regs[DS3231_CONTROL_REG], 2) = Flag(arg)
       /\ op = "enable_oscillator"
          => /\ OnlyField(DS3231_CONTROL_REG, {7})
             /\ Bit(regs[DS3231_CONTROL_REG], 7) = Flag(~arg)
       /\ op = "enable_32khz_square_wave"
          => /\ OnlyField(DS3231_CONTROL_STATUS_REG, {3})
             /\ Bit(regs[DS3231_CONTROL_STATUS_REG], 3) = Flag(arg)
       /\ op = "enable_am_pm_mode"
          => /\ OnlyField(DS3231_HOURS_REG, {6})
             /\ Bit(regs[DS3231_HOURS_REG], 6) = Flag(arg)
       /\ op = "set_square_wave_frequency"
          => /\ OnlyField(DS3231_CONTROL_REG, {3, 4})
             /\ Shr(regs[DS3231_CONTROL_REG], 3) % 4 = arg

\* the oscillator enabled on a control register 0xA5: bit 7 goes, the
\* rest stays
C16_Witness ==
    /\ op = "enable_oscillator" /\ arg = TRUE /\ ret = 0
    /\ pre.regs[DS3231_CONTROL_REG] = 165
    /\ regs[DS3231_CONTROL_REG] = 37

(***************************************************************************)
(* The order of the two writes of a set-alarm call                         *)
(***************************************************************************)
AlarmRegs ==
    IF op = "set_alarm_1"
    THEN DS3231_SECONDS_ALARM_1_REG..(DS3231_SECONDS_ALARM_1_REG + 3)
    ELSE DS3231_MINUTES_ALARM_2_REG..(DS3231_MINUTES_ALARM_2_REG + 2)

AlarmEnableBit == IF op = "set_alarm_1" THEN 0 ELSE 1

IsAlarmWrite(t) == t.kind = "write" /\ t.reg \in AlarmRegs

IsControlWrite(t) == t.kind = "write" /\ t.reg = DS3231_CONTROL_REG

AlarmWriteFailed == \E i \in 1..Len(bus) : IsAlarmWrite(bus[i]) /\ ~bus[i].ok

\* C17: in ds3231_set_alarm_1 and ds3231_set_alarm_2 the control register
\* is written, with the alarm-enable bit set, before the alarm registers
\* are; when the write of the alarm registers fails the call returns
\* failure, the control register has the enable bit set (its prior value
\* with bit 0, or bit 1 for alarm 2, set) and the alarm registers hold
\* their previous contents.
C17_EnableBeforeProgram ==
    op \in {"set_alarm_1", "set_alarm_2"}
    => /\ \A i \in 1..Len(bus) :
             IsAlarmWrite(bus[i])
             => \E j \in 1..(i - 1) : IsControlWrite(bus[j]) /\ bus[j].ok
       /\ AlarmWriteFailed
          => /\ ret = -1
             /\ Bit(regs[DS3231_CONTROL_REG], AlarmEnableBit) = 1
             /\ regs[DS3231_CONTROL_REG]
                  = BitOr(pre.regs[DS3231_CONTROL_REG], Shl(1, AlarmEnableBit))
             /\ \A a \in AlarmRegs : regs[a] = pre.regs[a]

\* alarm 2 on a cleared device: the write of its registers failed, the
\* control register is left at 0x02
C17_Witness ==
    /\ op = "set_alarm_2" /\ ret = -1 /\ AlarmWriteFailed
    /\ pre.regs[DS3231_CONTROL_REG] = 0
    /\ regs[DS3231_CONTROL_REG] = 2
    /\ \A a \in AlarmRegs : regs[a] = 0

(***************************************************************************)
(* Which mode decides the decoding of the hours byte                       *)
(***************************************************************************)
TwelveHour(b) == Bit(b, 6) = 1

\* an hours byte the device produces: 1..12 with a meridiem flag in
\* 12-hour mode, 0..23 in 24-hour mode, in packed decimal
DeviceHours(b) ==
    /\ Bit(b, 7) = 0
    /\ LowNibble(b) <= 9
    /\ IF TwelveHour(b) THEN Decode(b, 16) \in 1..12
       ELSE Decode(b, 48) \in 0..23

\* C18: ds3231_read_current_time decodes the hours byte it read by that
\* byte's own bit 6, whatever the facade's am_pm_mode is: with bit 6 set
\* the hours are the 12-hour value, in 1..12, and am_pm is bit 5; with
\* bit 6 clear they are the 24-hour value, in 0..23.
C18_DecodeByDeviceBit ==
    LET raw == regs[DS3231_HOURS_REG]
    IN  (op = "read_current_time" /\ ret = 0 /\ DeviceHours(raw))
        => IF TwelveHour(raw)
           THEN /\ data.hours = Decode(raw, 16)
                /\ data.hours \in 1..12
                /\ data.am_pm = (Bit(raw, 5) = 1)
           ELSE /\ data.hours = Decode(raw, 48)
                /\ data.hours \in 0..23

(***************************************************************************)
(* The number of register transactions of a call                           *)
(***************************************************************************)
FacadeOperations ==
    {"configure_time", "read_current_time", "set_alarm_1", "set_alarm_2",
     "enable_am_pm_mode", "enable_alarm_interrupt", "enable_oscillator",
     "enable_32khz_square_wave", "enable_battery_backed_square_wave",
     "set_square_wave_frequency", "force_convert_temperature",
     "read_temperature", "check_oscillator_stop_flag", "set_aging_offset"}

\* the most transactions a call of the operation issues
MostTransactions ==
    IF op \in {"set_alarm_1", "set_alarm_2"} THEN 4
    ELSE IF op = "force_convert_temperature" THEN 3
    ELSE 2

\* C19 as stated: every facade operation issues at least one and at most
\* two register transactions before it returns, on every path.
C19_OneOrTwo == op \in FacadeOperations => Len(bus) \in 1..2

\* C19: every facade operation issues at least one register transaction
\* and at most two, except ds3231_set_alarm_1 and ds3231_set_alarm_2,
\* which issue up to four, and ds3231_force_convert_temperature, which
\* issues up to three, on every path including the failure paths.
C19_TransactionBudget ==
    op \in FacadeOperations => Len(bus) \in 1..MostTransactions

\* a successful set-alarm call, four transactions, after a successful
\* forced conversion
C19_Witness ==
    /\ op = "set_alarm_1" /\ ret = 0 /\ Len(bus) = 4
    /\ prev.op = "force_convert_temperature" /\ prev.ret = 0

(***************************************************************************)
(* Two read-modify-write calls on the control register                     *)
(***************************************************************************)
BothSucceeded == \A t \in Tasks : tasks.pc[t] = "done" /\ tasks.result[t] = 0

\* one call returned before the other issued its read
OneAfterTheOther ==
    \/ tasks.wr[1] < tasks.rd[2]
    \/ tasks.wr[2] < tasks.rd[1]

\* both reads were issued before either write
BothReadsFirst == \A t, u \in Tasks : tasks.rd[t] < tasks.wr[u]

LastWriter == IF tasks.wr[1] > tasks.wr[2] THEN 1 ELSE 2

\* the control register before either call
Before == pre.regs[DS3231_CONTROL_REG]

\* C20: when ds3231_enable_alarm_interrupt and ds3231_enable_oscillator
\* both succeed one after the other, the control register holds both bit
\* changes; when both reads come before either write, both still return
\* success and the control register is the prior byte with only the last
\* writer's change, the other call's bit being as it was before.
C20_LostUpdate ==
    BothSucceeded
    => /\ OneAfterTheOther
          => /\ Bit(regs[DS3231_CONTROL_REG], 2) = Flag(tasks.enable[1])
             /\ Bit(regs[DS3231_CONTROL_REG], 7) = Flag(~tasks.enable[2])
             /\ \A n \in (0..7) \ {2, 7} :
                   Bit(regs[DS3231_CONTROL_REG], n) = Bit(Before, n)
       /\ BothReadsFirst
          => regs[DS3231_CONTROL_REG]
               = TaskByte(LastWriter, Before, tasks.enable[LastWriter])
       /\ OneAfterTheOther \/ BothReadsFirst

\* enable_alarm_interrupt(true) and enable_oscillator(false) on a control
\* register 0x00, reads first: both returned 0, bit 7 is set and the
\* alarm-interrupt bit is missing
C20_Witness ==
    /\ BothSucceeded /\ BothReadsFirst
    /\ tasks.enable[1] /\ ~tasks.enable[2]
    /\ Before = 0
    /\ regs[DS3231_CONTROL_REG] = 128

(***************************************************************************)
(* The facade's mode flag and the device's mode bit                        *)
(***************************************************************************)
\* C21: from ds3231_init on a device whose hours register has bit 6
\* clear, after any ds3231_enable_am_pm_mode and ds3231_configure_time
\* calls, each of whose transactions may fail, am_pm_mode equals bit 6 of
\* the hours register; a ds3231_enable_am_pm_mode call that returns
\* failure leaves am_pm_mode as it was before the call.
C21_ModeInStep ==
    /\ am_pm_mode = TwelveHour(regs[DS3231_HOURS_REG])
    /\ (op = "enable_am_pm_mode" /\ ret = -1)
       => am_pm_mode = pre.am_pm_mode

====
